---- MODULE Spec2Model ----
(***************************************************************************)
(* Verlet / forward-Euler / backward-Euler integration of a chain of       *)
(* coupled harmonic oscillators (verlet.ipynb).                            *)
(*                                                                         *)
(* Numbers are exact rationals <<num, den>> (den > 0, lowest terms): the   *)
(* notebook's float64 arithmetic is modelled by the real arithmetic it     *)
(* approximates.  Arrays are sequences of rationals, sparse matrices are   *)
(* sequences of rows.  numpy arrays are objects: a name refers to a cell   *)
(* of the heap, `+=` and `-=` write the cell, `.copy()` makes a new cell.  *)
(***************************************************************************)
EXTENDS Integers, Sequences, FiniteSets, TLC

VARIABLES n, dt, num_steps, L, input, heap,
          energy_verlet, energy_feuler, energy_beuler,
          kv, kf, kb, pc, out

vars == <<n, dt, num_steps, L, input, heap,
          energy_verlet, energy_feuler, energy_beuler, kv, kf, kb, pc, out>>

(***************************************************************************)
(* Bounds of the model.                                                    *)
(***************************************************************************)
QMax == 1
MaxRev == 2
MaxSteps == 8

(***************************************************************************)
(* Exact rational arithmetic.                                              *)
(***************************************************************************)
Abs(x) == IF x < 0 THEN -x ELSE x

RECURSIVE GCD(_, _)
GCD(a, b) == IF b = 0 THEN a ELSE GCD(b, a % b)

LCM(a, b) == (a \div GCD(a, b)) * b

Rat(a, b) ==
    LET s == IF b < 0 THEN -1 ELSE 1
        g == GCD(Abs(a), Abs(b))
    IN  <<(s * a) \div g, (s * b) \div g>>

Zero == <<0, 1>>
One == <<1, 1>>
Two == <<2, 1>>
Half == <<1, 2>>

RNeg(a) == <<-a[1], a[2]>>

RAdd(a, b) ==
    LET l == LCM(a[2], b[2])
    IN  Rat(a[1] * (l \div a[2]) + b[1] * (l \div b[2]), l)

RSub(a, b) == RAdd(a, RNeg(b))

RMul(a, b) ==
    LET g1 == GCD(Abs(a[1]), b[2])
        g2 == GCD(Abs(b[1]), a[2])
    IN  <<(a[1] \div g1) * (b[1] \div g2), (a[2] \div g2) * (b[2] \div g1)>>

RDiv(a, b) == RMul(a, Rat(b[2], b[1]))

RLe(a, b) ==
    LET l == LCM(a[2], b[2])
    IN  a[1] * (l \div a[2]) <= b[1] * (l \div b[2])

RLt(a, b) == RLe(a, b) /\ a # b

(***************************************************************************)
(* numpy / scipy.sparse operations on arrays and matrices.                 *)
(***************************************************************************)
ones(m) == [i \in 1..m |-> One]
zeros(m) == [i \in 1..m |-> Zero]

VAdd(u, v) == [i \in 1..Len(u) |-> RAdd(u[i], v[i])]
VSub(u, v) == [i \in 1..Len(u) |-> RSub(u[i], v[i])]
VScale(r, v) == [i \in 1..Len(v) |-> RMul(r, v[i])]

RECURSIVE SumSeq(_)
SumSeq(s) == IF Len(s) = 0 THEN Zero ELSE RAdd(SumSeq(SubSeq(s, 1, Len(s) - 1)), s[Len(s)])

Dot(u, v) == SumSeq([i \in 1..Len(u) |-> RMul(u[i], v[i])])

MatVec(M, v) == [i \in 1..Len(M) |-> Dot(M[i], v)]
Transpose(M) == [i \in 1..Len(M) |-> [j \in 1..Len(M) |-> M[j][i]]]
MatMul(A, B) ==
    [i \in 1..Len(A) |-> [j \in 1..Len(A) |->
        SumSeq([l \in 1..Len(A) |-> RMul(A[i][l], B[l][j])])]]
MatAdd(A, B) == [i \in 1..Len(A) |-> VAdd(A[i], B[i])]
MatScale(r, A) == [i \in 1..Len(A) |-> VScale(r, A[i])]
eye(m) == [i \in 1..m |-> [j \in 1..m |-> IF i = j THEN One ELSE Zero]]

\* scipy.sparse.diags([main, sub], [0, -1]): main on the diagonal, sub below it
diags(main, sub) ==
    [i \in 1..Len(main) |-> [j \in 1..Len(main) |->
        IF i = j THEN main[i]
        ELSE IF i = j + 1 THEN sub[j]
        ELSE Zero]]

\* scipy.sparse.linalg.spsolve(A, b): the exact solution of A x = b, by
\* Gauss-Jordan elimination on the augmented matrix (first non-zero pivot)
RECURSIVE Eliminate(_, _)
Eliminate(M, c) ==
    LET m == Len(M)
    IN  IF c > m THEN M
        ELSE
          LET piv == CHOOSE r \in c..m :
                        M[r][c] # Zero /\ \A s \in c..(r - 1) : M[s][c] = Zero
              S == [r \in 1..m |-> IF r = c THEN M[piv]
                                   ELSE IF r = piv THEN M[c] ELSE M[r]]
              prow == [j \in 1..(m + 1) |-> RDiv(S[c][j], S[c][c])]
              M2 == [r \in 1..m |->
                       IF r = c THEN prow
                       ELSE [j \in 1..(m + 1) |->
                               RSub(S[r][j], RMul(S[r][c], prow[j]))]]
          IN  Eliminate(M2, c + 1)

spsolve(A, b) ==
    LET m == Len(A)
        aug == [i \in 1..m |-> [j \in 1..(m + 1) |-> IF j <= m THEN A[i][j] ELSE b[i]]]
        R == Eliminate(aug, 1)
    IN  [i \in 1..m |-> R[i][m + 1]]

(***************************************************************************)
(* The stiffness operator and the energy model.                            *)
(***************************************************************************)
\* mutant: diag[0] is left at 1
UnpinnedDiag(m) == ones(m)

\* diag = np.ones(n); diag[0] = 0
PinnedDiag(m) == [i \in 1..m |-> IF i = 1 THEN Zero ELSE One]

BuildD(m) == diags(PinnedDiag(m), VScale(RNeg(One), ones(m - 1)))

BuildLambda(m) == eye(m)

BuildL(m) == MatMul(MatMul(Transpose(BuildD(m)), BuildLambda(m)), BuildD(m))

kinetic_energy(p) == RMul(Half, SumSeq([i \in 1..Len(p) |-> RMul(p[i], p[i])]))

velocity(p) == p

potential_energy(q) == RMul(Half, Dot(MatVec(L, q), q))

potential_gradient(q) == MatVec(L, q)

TotalEnergy(q, p) == RAdd(kinetic_energy(p), potential_energy(q))

(***************************************************************************)
(* The heap: names -> cells -> arrays.  A fresh cell carries the name it   *)
(* is first bound to; a name's own cell is referred to by no other name,   *)
(* so re-using it on a later allocation is a fresh allocation.             *)
(***************************************************************************)
Read(h, x) == h.mem[h.ref[x]]

\* x = src.copy()
Copy(h, x, src) ==
    [mem |-> (x :> Read(h, src)) @@ h.mem, ref |-> (x :> x) @@ h.ref]

\* x = <new array v>
Bind(h, x, v) ==
    [mem |-> (x :> v) @@ h.mem, ref |-> (x :> x) @@ h.ref]

\* x += v, in place
IAdd(h, x, v) == [h EXCEPT !.mem[h.ref[x]] = VAdd(@, v)]

\* x -= v, in place
ISub(h, x, v) == [h EXCEPT !.mem[h.ref[x]] = VSub(@, v)]

(***************************************************************************)
(* Parameters and initial condition.                                       *)
(***************************************************************************)
\* 2 * np.pi, to six decimals
TwoPiNum == 6283185
TwoPiDen == 1000000

\* int(2 * np.pi / dt) for dt > 0
NumSteps(d) == (TwoPiNum * d[2]) \div (TwoPiDen * d[1])

\* the (n, dt) pairs of the model; dt is a rational.  They give runs of
\* 6, 3, 2, 1 and 0 steps whose exact values fit TLC's 32-bit integers.
Configs ==
    { <<2, <<1, 1>>>>, <<2, <<2, 1>>>>, <<2, <<3, 1>>>>, <<2, <<4, 1>>>>,
      <<2, <<7, 1>>>>, <<3, <<1, 1>>>>, <<3, <<4, 1>>>> }

QVals == (-QMax)..QMax

Vectors(m) == [1..m -> {<<v, 1>> : v \in QVals}]

\* lines 87-88: the arrays q0 and p0
StartHeap(q0, p0) ==
    [mem |-> ("q0" :> q0) @@ ("p0" :> p0),
     ref |-> ("q0" :> "q0") @@ ("p0" :> "p0")]

Init ==
    \E c \in Configs :
      \E q0 \in Vectors(c[1]) :
        /\ n = c[1]
        /\ dt = c[2]
        /\ num_steps = NumSteps(c[2])
        /\ L = BuildL(c[1])
        /\ input = [q0 |-> q0, p0 |-> zeros(c[1])]
        /\ heap = StartHeap(q0, zeros(c[1]))
        /\ energy_verlet = <<>>
        /\ energy_feuler = <<>>
        /\ energy_beuler = <<>>
        /\ kv = 0 /\ kf = 0 /\ kb = 0
        /\ pc = "setup"
        /\ out = [kind |-> "none"]

(***************************************************************************)
(* Lines 107-110: private copies and energy arrays.                        *)
(***************************************************************************)
\* mutant: the six names are bound to q0 and p0 themselves, without .copy()
SetupHeapShared(h) ==
    [h EXCEPT !.ref = [x \in {"q_verlet", "q_feuler", "q_beuler"} |-> h.ref["q0"]]
                      @@ [x \in {"p_verlet", "p_feuler", "p_beuler"} |-> h.ref["p0"]]
                      @@ h.ref]

SetupHeap(h) ==
    LET h1 == Copy(h, "q_verlet", "q0")
        h2 == Copy(h1, "q_feuler", "q0")
        h3 == Copy(h2, "q_beuler", "q0")
        h4 == Copy(h3, "p_verlet", "p0")
        h5 == Copy(h4, "p_feuler", "p0")
    IN  Copy(h5, "p_beuler", "p0")

Setup ==
    /\ pc = "setup"
    /\ heap' = SetupHeap(heap)
    /\ energy_verlet' = zeros(num_steps)
    /\ energy_feuler' = zeros(num_steps)
    /\ energy_beuler' = zeros(num_steps)
    /\ pc' = "loop"
    /\ UNCHANGED <<n, dt, num_steps, L, input, kv, kf, kb, out>>

(***************************************************************************)
(* Lines 113-115: one Verlet update with time step d.                      *)
(***************************************************************************)
\* mutant: the kick reads the pre-step position
VerletUpdateStaleKick(h, d) ==
    LET g == potential_gradient(Read(h, "q_verlet"))
        h1 == IAdd(h, "q_verlet", VScale(RDiv(d, Two), velocity(Read(h, "p_verlet"))))
        h2 == ISub(h1, "p_verlet", VScale(d, g))
    IN  IAdd(h2, "q_verlet", VScale(RDiv(d, Two), velocity(Read(h2, "p_verlet"))))

\* mutant: the second half-drift reads the pre-step momentum
VerletUpdateOldMomentum(h, d) ==
    LET v == velocity(Read(h, "p_verlet"))
        h1 == IAdd(h, "q_verlet", VScale(RDiv(d, Two), v))
        h2 == ISub(h1, "p_verlet", VScale(d, potential_gradient(Read(h1, "q_verlet"))))
    IN  IAdd(h2, "q_verlet", VScale(RDiv(d, Two), v))

VerletUpdate(h, d) ==
    LET h1 == IAdd(h, "q_verlet", VScale(RDiv(d, Two), velocity(Read(h, "p_verlet"))))
        h2 == ISub(h1, "p_verlet", VScale(d, potential_gradient(Read(h1, "q_verlet"))))
    IN  IAdd(h2, "q_verlet", VScale(RDiv(d, Two), velocity(Read(h2, "p_verlet"))))

VerletDo ==
    /\ pc = "loop"
    /\ kv < num_steps
    /\ heap' = VerletUpdate(heap, dt)
    /\ energy_verlet' = [energy_verlet EXCEPT ![kv + 1] =
          TotalEnergy(Read(heap', "q_verlet"), Read(heap', "p_verlet"))]
    /\ kv' = kv + 1
    /\ UNCHANGED <<n, dt, num_steps, L, input, energy_feuler, energy_beuler,
                   kf, kb, pc, out>>

VerletStep == kv = kf /\ kf = kb /\ VerletDo

(***************************************************************************)
(* Lines 118-120: one forward-Euler update.                                *)
(***************************************************************************)
\* mutant: qk is the array q_feuler itself, not a snapshot of it
FEulerUpdateNoSnapshot(h, d) ==
    LET h1 == [h EXCEPT !.ref = ("qk" :> h.ref["q_feuler"]) @@ h.ref]
        h2 == IAdd(h1, "q_feuler", VScale(d, velocity(Read(h1, "p_feuler"))))
    IN  ISub(h2, "p_feuler", VScale(d, potential_gradient(Read(h2, "qk"))))

FEulerUpdate(h, d) ==
    LET h1 == Copy(h, "qk", "q_feuler")
        h2 == IAdd(h1, "q_feuler", VScale(d, velocity(Read(h1, "p_feuler"))))
    IN  ISub(h2, "p_feuler", VScale(d, potential_gradient(Read(h2, "qk"))))

FEulerDo ==
    /\ pc = "loop"
    /\ kf < num_steps
    /\ heap' = FEulerUpdate(heap, dt)
    /\ energy_feuler' = [energy_feuler EXCEPT ![kf + 1] =
          TotalEnergy(Read(heap', "q_feuler"), Read(heap', "p_feuler"))]
    /\ kf' = kf + 1
    /\ UNCHANGED <<n, dt, num_steps, L, input, energy_verlet, energy_beuler,
                   kv, kb, pc, out>>

FEulerStep == kv = kf + 1 /\ kf = kb /\ FEulerDo

(***************************************************************************)
(* Lines 123-125: one backward-Euler update.                               *)
(***************************************************************************)
\* scipy.sparse.eye(n) + dt**2 * L
BEulerMatrix(d) == MatAdd(eye(Len(L)), MatScale(RMul(d, d), L))

\* mutant: the position is advanced with the pre-step momentum pk
BEulerUpdateOldMomentum(h, d) ==
    LET h1 == Copy(h, "pk", "p_beuler")
        rhs == VSub(Read(h1, "pk"), MatVec(MatScale(d, L), Read(h1, "q_beuler")))
        h2 == Bind(h1, "p_beuler", spsolve(BEulerMatrix(d), rhs))
    IN  IAdd(h2, "q_beuler", VScale(d, Read(h2, "pk")))

BEulerUpdate(h, d) ==
    LET h1 == Copy(h, "pk", "p_beuler")
        rhs == VSub(Read(h1, "pk"), MatVec(MatScale(d, L), Read(h1, "q_beuler")))
        h2 == Bind(h1, "p_beuler", spsolve(BEulerMatrix(d), rhs))
    IN  IAdd(h2, "q_beuler", VScale(d, Read(h2, "p_beuler")))

BEulerDo ==
    /\ pc = "loop"
    /\ kb < num_steps
    /\ heap' = BEulerUpdate(heap, dt)
    /\ energy_beuler' = [energy_beuler EXCEPT ![kb + 1] =
          TotalEnergy(Read(heap', "q_beuler"), Read(heap', "p_beuler"))]
    /\ kb' = kb + 1
    /\ UNCHANGED <<n, dt, num_steps, L, input, energy_verlet, energy_feuler,
                   kv, kf, pc, out>>

BEulerStep == kv = kb + 1 /\ kf = kb + 1 /\ BEulerDo

(***************************************************************************)
(* Line 168: the conservation error of the Verlet energies is printed.     *)
(***************************************************************************)
RECURSIVE MaxSeq(_)
MaxSeq(s) ==
    IF Len(s) = 1 THEN s[1]
    ELSE LET m == MaxSeq(SubSeq(s, 1, Len(s) - 1))
         IN  IF RLe(m, s[Len(s)]) THEN s[Len(s)] ELSE m

RECURSIVE MinSeq(_)
MinSeq(s) ==
    IF Len(s) = 1 THEN s[1]
    ELSE LET m == MinSeq(SubSeq(s, 1, Len(s) - 1))
         IN  IF RLe(s[Len(s)], m) THEN s[Len(s)] ELSE m

Mean(s) == RDiv(SumSeq(s), <<Len(s), 1>>)

\* np.max of an empty array raises ValueError; a float64 division by zero
\* raises nothing: 0/0 is nan, x/0 is inf
ConservationError(e) ==
    IF Len(e) = 0 THEN [kind |-> "ValueError"]
    ELSE LET spread == RSub(MaxSeq(e), MinSeq(e))
             mean == Mean(e)
         IN  IF mean # Zero THEN [kind |-> "value", val |-> RDiv(spread, mean)]
             ELSE IF spread = Zero THEN [kind |-> "nan"]
             ELSE [kind |-> "inf"]

Report ==
    /\ pc = "loop"
    /\ kv = num_steps /\ kf = num_steps /\ kb = num_steps
    /\ out' = ConservationError(energy_verlet)
    /\ pc' = "done"
    /\ UNCHANGED <<n, dt, num_steps, L, input, heap,
                   energy_verlet, energy_feuler, energy_beuler, kv, kf, kb>>

(***************************************************************************)
(* The notebook: the three updates in the order of the loop body.          *)
(***************************************************************************)
Next == Setup \/ VerletStep \/ FEulerStep \/ BEulerStep \/ Report

Spec == Init /\ [][Next]_vars

(***************************************************************************)
(* The three runs as independent tasks: the same updates, any interleaving.*)
(***************************************************************************)
InitFree == Init /\ n = 2

NextFree == Setup \/ VerletDo \/ FEulerDo \/ BEulerDo \/ Report

SpecFree == InitFree /\ [][NextFree]_vars

(***************************************************************************)
(* The Verlet update as a map on arbitrary states: from any (q, p), N      *)
(* updates with dt (lines 113-115), then N updates with -dt.  num_steps    *)
(* holds N.                                                                *)
(***************************************************************************)
\* <<n, dt>>
RevConfigs ==
    { <<2, <<1, 2>>>>, <<2, <<1, 1>>>>, <<2, <<3, 2>>>>, <<2, <<-2, 1>>>>,
      <<3, <<1, 2>>>> }

InitRev ==
    \E c \in RevConfigs, N \in {1, MaxRev} :
      \E q0 \in Vectors(c[1]), p0 \in Vectors(c[1]) :
        /\ n = c[1]
        /\ dt = c[2]
        /\ num_steps = N
        /\ L = BuildL(c[1])
        /\ input = [q0 |-> q0, p0 |-> p0]
        /\ heap = [mem |-> ("q_verlet" :> q0) @@ ("p_verlet" :> p0),
                   ref |-> ("q_verlet" :> "q_verlet") @@ ("p_verlet" :> "p_verlet")]
        /\ energy_verlet = <<>>
        /\ energy_feuler = <<>>
        /\ energy_beuler = <<>>
        /\ kv = 0 /\ kf = 0 /\ kb = 0
        /\ pc = "fwd"
        /\ out = [kind |-> "none"]

RevForward ==
    /\ pc = "fwd"
    /\ kv < num_steps
    /\ heap' = VerletUpdate(heap, dt)
    /\ kv' = kv + 1
    /\ UNCHANGED <<n, dt, num_steps, L, input, energy_verlet, energy_feuler,
                   energy_beuler, kf, kb, pc, out>>

RevTurn ==
    /\ pc = "fwd"
    /\ kv = num_steps
    /\ pc' = "bwd"
    /\ UNCHANGED <<n, dt, num_steps, L, input, heap, energy_verlet, energy_feuler,
                   energy_beuler, kv, kf, kb, out>>

RevBackward ==
    /\ pc = "bwd"
    /\ kv > 0
    /\ heap' = VerletUpdate(heap, RNeg(dt))
    /\ kv' = kv - 1
    /\ UNCHANGED <<n, dt, num_steps, L, input, energy_verlet, energy_feuler,
                   energy_beuler, kf, kb, pc, out>>

NextRev == RevForward \/ RevTurn \/ RevBackward

SpecRev == InitRev /\ [][NextRev]_vars

(***************************************************************************)
(* The notebook with the number of steps as an input of its own, so that   *)
(* runs of different lengths at one dt can be compared: lines 107-126 and  *)
(* line 168 as in Next, with num_steps given instead of derived from dt.   *)
(***************************************************************************)
\* <<n, dt, N>>: the runs of 0 to N steps.  At dt = 1 the Verlet energies
\* are periodic and the runs go up to MaxSteps steps.  At dt = 3/2 and
\* dt = 2 the Verlet and forward-Euler energies are multiplied, and the
\* backward-Euler energies divided, by 6 to 34 at every step; these runs
\* go up to 4 steps, where the exact fractions of the three schemes are
\* still small.
RunConfigs ==
    { <<2, <<1, 1>>, MaxSteps>>, <<3, <<1, 1>>, MaxSteps>>,
      <<2, <<3, 2>>, 4>>, <<2, <<2, 1>>, 4>> }

InitRun ==
    \E c \in RunConfigs :
      \E q0 \in Vectors(c[1]), N \in 0..c[3] :
        /\ n = c[1]
        /\ dt = c[2]
        /\ num_steps = N
        /\ L = BuildL(c[1])
        /\ input = [q0 |-> q0, p0 |-> zeros(c[1])]
        /\ heap = StartHeap(q0, zeros(c[1]))
        /\ energy_verlet = <<>>
        /\ energy_feuler = <<>>
        /\ energy_beuler = <<>>
        /\ kv = 0 /\ kf = 0 /\ kb = 0
        /\ pc = "setup"
        /\ out = [kind |-> "none"]

SpecRun == InitRun /\ [][Next]_vars

(***************************************************************************)
(* Properties.                                                             *)
(***************************************************************************)
Q(h, x) == Read(h, x)

Stepped(k) == k' = k + 1

\* C1: one Verlet step of the loop maps (q, p) to (q', p') with
\* q_half = q + (dt/2) p, p' = p - dt L q_half, q' = q_half + (dt/2) p':
\* the kick reads the half-drifted position, the second half-drift reads
\* the kicked momentum.
C1_VerletStepContract ==
    [][Stepped(kv) =>
         LET q == Q(heap, "q_verlet")
             p == Q(heap, "p_verlet")
             q_half == VAdd(q, VScale(RMul(Half, dt), p))
             p_new == VSub(p, VScale(dt, MatVec(L, q_half)))
             q_new == VAdd(q_half, VScale(RMul(Half, dt), p_new))
         IN  /\ Q(heap', "p_verlet") = p_new
             /\ Q(heap', "q_verlet") = q_new]_vars

\* a Verlet step has been taken from a state with non-zero momentum and a
\* position the operator acts on
C1_Witness ==
    /\ pc = "loop" /\ kv >= 2
    /\ Q(heap, "p_verlet") # zeros(n)
    /\ MatVec(L, Q(heap, "q_verlet")) # zeros(n)

\* C5: one forward-Euler step computes both updates from the pre-step state:
\* q' = q + dt p with the old p, p' = p - dt L q with the old q.
C5_FEulerStepContract ==
    [][Stepped(kf) =>
         LET q == Q(heap, "q_feuler")
             p == Q(heap, "p_feuler")
         IN  /\ Q(heap', "q_feuler") = VAdd(q, VScale(dt, p))
             /\ Q(heap', "p_feuler") = VSub(p, VScale(dt, MatVec(L, q)))]_vars

\* a forward-Euler step has been taken from a state whose momentum moves q
\* and whose position moves p
C5_Witness ==
    /\ pc = "loop" /\ kf >= 2
    /\ Q(heap, "p_feuler") # zeros(n)
    /\ MatVec(L, Q(heap, "qk")) # zeros(n)
    /\ Q(heap, "qk") # Q(heap, "q_feuler")

\* C6: one backward-Euler step produces p' with (I + dt^2 L) p' = p - dt L q
\* from the pre-step q and p, and q' = q + dt p'; equivalently
\* q' = q + dt p' and p' = p - dt L q'.
C6_BEulerStepContract ==
    [][Stepped(kb) =>
         LET q == Q(heap, "q_beuler")
             p == Q(heap, "p_beuler")
             q_new == Q(heap', "q_beuler")
             p_new == Q(heap', "p_beuler")
             A == MatAdd(eye(n), MatScale(RMul(dt, dt), L))
         IN  /\ MatVec(A, p_new) = VSub(p, VScale(dt, MatVec(L, q)))
             /\ q_new = VAdd(q, VScale(dt, p_new))
             /\ p_new = VSub(p, VScale(dt, MatVec(L, q_new)))]_vars

\* a backward-Euler step has been taken from a state with non-zero momentum,
\* and it changed the momentum
C6_Witness ==
    /\ pc = "loop" /\ kb >= 2
    /\ Q(heap, "pk") # zeros(n)
    /\ Q(heap, "p_beuler") # Q(heap, "pk")

\* C7: L = D^T Lambda D is symmetric, and for n = 2 it is [[1, -1], [-1, 1]].
C7_OperatorCorrect ==
    /\ L = Transpose(L)
    /\ n = 2 => L = << <<One, RNeg(One)>>, <<RNeg(One), One>> >>

\* the operator of the two-coordinate chain has been built and used
C7_Witness == n = 2 /\ pc = "done" /\ num_steps > 0

\* the shadow Hamiltonian 1/2 p^T (I - (dt^2/4) L) p + 1/2 q^T L q
ShadowH(q, p) ==
    LET A == MatAdd(eye(n), MatScale(RNeg(RDiv(RMul(dt, dt), <<4, 1>>)), L))
    IN  RAdd(RMul(Half, Dot(p, MatVec(A, p))), RMul(Half, Dot(q, MatVec(L, q))))

\* C10: every Verlet step preserves the shadow Hamiltonian, so it has the
\* value of the initial state in every state the Verlet run reaches.
C10_ShadowConserved ==
    pc \in {"loop", "done"} =>
        ShadowH(Q(heap, "q_verlet"), Q(heap, "p_verlet")) = ShadowH(input.q0, input.p0)

\* several Verlet steps taken, the energy itself has changed
C10_Witness ==
    /\ pc = "loop" /\ kv >= 3
    /\ energy_verlet[kv] # TotalEnergy(input.q0, input.p0)
    /\ energy_verlet[kv] # energy_verlet[kv - 1]

\* C4: N Verlet updates with dt followed by N Verlet updates with -dt
\* return the state to the original (q0, p0), exactly.
C4_VerletReversible ==
    (pc = "bwd" /\ kv = 0) =>
        /\ Q(heap, "q_verlet") = input.q0
        /\ Q(heap, "p_verlet") = input.p0

\* MaxRev updates forward and MaxRev back, from a state that moves
C4_Witness ==
    /\ pc = "bwd" /\ kv = 0 /\ num_steps = MaxRev
    /\ input.p0 # zeros(n)
    /\ MatVec(L, input.q0) # zeros(n)
    /\ Q(heap, "q_verlet") = input.q0

\* a scheme run alone for k steps from the state after lines 107-110:
\* its heap and the energies it records
VerletRecord(r, k) ==
    LET record(h1) ==
          [h |-> h1,
           e |-> [r.e EXCEPT ![k] =
                    TotalEnergy(Read(h1, "q_verlet"), Read(h1, "p_verlet"))]]
    IN  CHOOSE y \in {record(h1) : h1 \in {VerletUpdate(r.h, dt)}} : TRUE

RECURSIVE VerletAlone(_, _)
VerletAlone(h, k) ==
    IF k = 0 THEN [h |-> h, e |-> zeros(num_steps)]
    ELSE CHOOSE y \in {VerletRecord(r, k) : r \in {VerletAlone(h, k - 1)}} : TRUE

FEulerRecord(r, k) ==
    LET record(h1) ==
          [h |-> h1,
           e |-> [r.e EXCEPT ![k] =
                    TotalEnergy(Read(h1, "q_feuler"), Read(h1, "p_feuler"))]]
    IN  CHOOSE y \in {record(h1) : h1 \in {FEulerUpdate(r.h, dt)}} : TRUE

RECURSIVE FEulerAlone(_, _)
FEulerAlone(h, k) ==
    IF k = 0 THEN [h |-> h, e |-> zeros(num_steps)]
    ELSE CHOOSE y \in {FEulerRecord(r, k) : r \in {FEulerAlone(h, k - 1)}} : TRUE

BEulerRecord(r, k) ==
    LET record(h1) ==
          [h |-> h1,
           e |-> [r.e EXCEPT ![k] =
                    TotalEnergy(Read(h1, "q_beuler"), Read(h1, "p_beuler"))]]
    IN  CHOOSE y \in {record(h1) : h1 \in {BEulerUpdate(r.h, dt)}} : TRUE

RECURSIVE BEulerAlone(_, _)
BEulerAlone(h, k) ==
    IF k = 0 THEN [h |-> h, e |-> zeros(num_steps)]
    ELSE CHOOSE y \in {BEulerRecord(r, k) : r \in {BEulerAlone(h, k - 1)}} : TRUE

\* C8: the three runs share no mutable state: q0, p0 and L are unchanged,
\* and in every interleaving of the three per-step updates each scheme's
\* q, p and energy array are those of that scheme run alone.
C8_RunsIndependent ==
    pc \in {"loop", "done"} =>
        \A h0 \in {SetupHeap(StartHeap(input.q0, input.p0))} :
          /\ Q(heap, "q0") = input.q0
          /\ Q(heap, "p0") = input.p0
          /\ L = BuildL(n)
          /\ \A v \in {VerletAlone(h0, kv)} :
                /\ Q(heap, "q_verlet") = Q(v.h, "q_verlet")
                /\ Q(heap, "p_verlet") = Q(v.h, "p_verlet")
                /\ energy_verlet = v.e
          /\ \A f \in {FEulerAlone(h0, kf)} :
                /\ Q(heap, "q_feuler") = Q(f.h, "q_feuler")
                /\ Q(heap, "p_feuler") = Q(f.h, "p_feuler")
                /\ energy_feuler = f.e
          /\ \A b \in {BEulerAlone(h0, kb)} :
                /\ Q(heap, "q_beuler") = Q(b.h, "q_beuler")
                /\ Q(heap, "p_beuler") = Q(b.h, "p_beuler")
                /\ energy_beuler = b.e

\* the three schemes are at three different steps, out of the loop's order,
\* and have moved to three different positions
C8_Witness ==
    /\ pc = "loop"
    /\ kb > kf /\ kf > kv /\ kv > 0
    /\ Q(heap, "q_verlet") # Q(heap, "q_feuler")
    /\ Q(heap, "q_feuler") # Q(heap, "q_beuler")
    /\ Q(heap, "q_verlet") # input.q0

Four == <<4, 1>>

\* the largest eigenvalue of L: the eigenvalues of the free chain of m
\* coordinates are 2 - 2 cos(j pi / m), that is {0, 2} for m = 2 and
\* {0, 1, 3} for m = 3
LambdaMax(m) == IF m = 2 THEN <<2, 1>> ELSE <<3, 1>>

\* d^2 lambda_max < 4: I - (d^2/4) L is positive definite
StableAt(m, d) == RLt(RMul(RMul(d, d), LambdaMax(m)), Four)

\* d^2 lambda_max / (4 - d^2 lambda_max)
ErrorBoundAt(m, d) ==
    RDiv(RMul(RMul(d, d), LambdaMax(m)),
         RSub(Four, RMul(RMul(d, d), LambdaMax(m))))

VerletStable == StableAt(n, dt)

ErrorBound == ErrorBoundAt(n, dt)

\* 4 / (4 - dt^2 lambda_max)
BandFactor == RAdd(One, ErrorBound)

\* the largest conservation error the band allows a stable run of the model
StableErrorMax ==
    LET S == {ErrorBoundAt(c[1], c[2]) : c \in {x \in RunConfigs : StableAt(x[1], x[2])}}
    IN  CHOOSE x \in S : \A y \in S : RLe(y, x)

\* the conservation error of the run of k steps: that of the first k
\* recorded energies
ErrorOfRun(k) == ConservationError(SubSeq(energy_verlet, 1, k))

\* a < b for rationals a, b >= 0, by integer parts and then the reciprocals
\* of the fractional parts, so that no product of the two is formed
RECURSIVE LessByParts(_, _)
LessByParts(a, b) ==
    IF a[1] \div a[2] # b[1] \div b[2] THEN a[1] \div a[2] < b[1] \div b[2]
    ELSE IF b[1] % b[2] = 0 THEN FALSE
    ELSE IF a[1] % a[2] = 0 THEN TRUE
    ELSE LessByParts(<<b[2], b[1] % b[2]>>, <<a[2], a[1] % a[2]>>)

\* the conservation error has grown with every step added to the run
ErrorGrowsWithSteps ==
    \A k \in 2..num_steps :
        \A a \in {ErrorOfRun(k - 1)}, b \in {ErrorOfRun(k)} :
            /\ a.kind = "value" /\ b.kind = "value"
            /\ LessByParts(a.val, b.val)

NonDecreasing(e, k) == \A i \in 1..(k - 1) : RLe(e[i], e[i + 1])
NonIncreasing(e, k) == \A i \in 1..(k - 1) : RLe(e[i + 1], e[i])
Increasing(e, k) == \A i \in 1..(k - 1) : RLt(e[i], e[i + 1])
Decreasing(e, k) == \A i \in 1..(k - 1) : RLt(e[i + 1], e[i])

\* C3 (as stated): in every run the forward-Euler energies never decrease
\* from one step to the next and the last recorded one is greater than the
\* first; the backward-Euler energies never increase and the last recorded
\* one is smaller than the first.
C3_Original ==
    (pc = "done" /\ num_steps >= 1) =>
        /\ NonDecreasing(energy_feuler, num_steps)
        /\ RLt(energy_feuler[1], energy_feuler[num_steps])
        /\ NonIncreasing(energy_beuler, num_steps)
        /\ RLt(energy_beuler[num_steps], energy_beuler[1])

\* C3 (amended): the forward-Euler energies never decrease and the
\* backward-Euler energies never increase from one step to the next.  When
\* L q0 # 0 the change is strict at every step, so the last recorded energy
\* is greater (forward) or smaller (backward) than the first as soon as two
\* energies are recorded; when L q0 = 0 every recorded energy is 0.
C3_EulerDrift ==
    pc \in {"loop", "done"} =>
        /\ NonDecreasing(energy_feuler, kf)
        /\ NonIncreasing(energy_beuler, kb)
        /\ MatVec(L, input.q0) # zeros(n) =>
              /\ Increasing(energy_feuler, kf)
              /\ Decreasing(energy_beuler, kb)
              /\ kf >= 2 => RLt(energy_feuler[1], energy_feuler[kf])
              /\ kb >= 2 => RLt(energy_beuler[kb], energy_beuler[1])
        /\ MatVec(L, input.q0) = zeros(n) =>
              /\ \A i \in 1..kf : energy_feuler[i] = Zero
              /\ \A i \in 1..kb : energy_beuler[i] = Zero

\* a run of several steps from a stretched chain is complete
C3_Witness ==
    /\ pc = "done" /\ num_steps >= 3
    /\ MatVec(L, input.q0) # zeros(n)
    /\ RLt(energy_feuler[1], energy_feuler[num_steps])
    /\ RLt(energy_beuler[num_steps], energy_beuler[1])

\* C9: the conservation-error diagnostic never returns a value for a
\* malformed trajectory: it fails when the trajectory is empty and when
\* its mean is zero.
C9_DiagnosticFails ==
    (pc = "done" /\ (Len(energy_verlet) = 0 \/ Mean(energy_verlet) = Zero)) =>
        out.kind \notin {"value", "nan", "inf"}
====
